---------------------------- MODULE Spec2Model ----------------------------
(* One conversation turn of process_single_conversation                    *)
(* (src/content/Open-LLM-VTuber/single_conversation.py).                    *)
(*                                                                          *)
(* Text is a sequence of tokens.  A token is one character, or a fixed      *)
(* literal of the source that holds no leading or trailing blank of its     *)
(* own text (such as the prefix of an f-string).  Python values that reach  *)
(* reply_text are records [t, s, n]: t the Python type, s the text of a     *)
(* str, n the number of an int / bool, or the length of a list / dict.      *)
EXTENDS Integers, Sequences, FiniteSets, TLC

VARIABLES
    user_input,      \* parameter user_input: a text, or audio for the ASR engine
    metadata,        \* parameter metadata: None, {}, {"skip_history": ...}
    history_uid,     \* context.history_uid ("" when no history sink is configured)
    pc,              \* the await or statement the coroutine is at
    input_text,      \* result of process_user_input
    skip_history,    \* truth value of the local skip_history (line 79)
    resp,            \* outcome of _post_to_n8n (response or exception)
    reply_text,      \* local reply_text, a Python value
    clean_reply,     \* local clean_reply
    sentence_output, \* the SentenceOutput handed to process_agent_output
    task_list,       \* tts_manager.task_list: state of every registered task
    full_response,   \* local full_response
    err,             \* the exception in flight, "none" if there is none
    outcome,         \* how the call ended: running/returned/raised/cancelled
    trace,           \* the calls made on collaborators so far, in order
    detached         \* work the ended call left running: the worker thread of the
                     \* fetch, TTS tasks still pending (how many)

vars == << user_input, metadata, history_uid, pc, input_text, skip_history, resp,
           reply_text, clean_reply, sentence_output, task_list, full_response,
           err, outcome, trace, detached >>

----------------------------------------------------------------------------
(* Bounds of the model.                                                     *)

MaxLen == 2      \* longest text drawn for a reply, a body or a partial response
MaxTasks == 2    \* most TTS tasks the Output Renderer registers in one turn

----------------------------------------------------------------------------
(* Text.                                                                    *)

Whitespace == {" ", "\n"}
Chars == {" ", "a"}

RECURSIVE TextsUpTo(_)
TextsUpTo(n) ==
    IF n = 0 THEN {<< >>}
    ELSE LET shorter == TextsUpTo(n - 1)
         IN shorter \cup {Append(t, c) : t \in {u \in shorter : Len(u) = n - 1}, c \in Chars}

Texts == TextsUpTo(MaxLen) \cup {<<" ", "a", "\n">>, <<"a", " ", "a">>}

\* str.lstrip() / str.rstrip() / str.strip() with no argument
RECURSIVE LStrip(_)
LStrip(s) ==
    IF s = << >> THEN s
    ELSE IF Head(s) \in Whitespace THEN LStrip(Tail(s)) ELSE s

RECURSIVE RStrip(_)
RStrip(s) ==
    IF s = << >> THEN s
    ELSE IF s[Len(s)] \in Whitespace THEN RStrip(SubSeq(s, 1, Len(s) - 1)) ELSE s

StripMutant(s) == LStrip(s)

Strip(s) == RStrip(LStrip(s))

\* sub in s, for str operands
Contains(s, sub) ==
    \E i \in 0..(Len(s) - Len(sub)) : SubSeq(s, i + 1, i + Len(sub)) = sub

----------------------------------------------------------------------------
(* Python values and JSON.                                                  *)

PyStr(s)  == [t |-> "str",  s |-> s,     n |-> 0]
PyNone    == [t |-> "none", s |-> << >>, n |-> 0]
PyBool(b) == [t |-> "bool", s |-> << >>, n |-> IF b THEN 1 ELSE 0]
PyInt(n)  == [t |-> "int",  s |-> << >>, n |-> n]
PyList(n) == [t |-> "list", s |-> << >>, n |-> n]   \* a list of n ones
PyDict(n) == [t |-> "dict", s |-> << >>, n |-> n]   \* n = 0: {}, n = 1: {"k": 1}

\* bool(v)
Truthy(v) ==
    CASE v.t = "str"  -> v.s # << >>
      [] v.t = "none" -> FALSE
      [] OTHER        -> v.n # 0

\* json.dumps(v)
Dumps(v) ==
    CASE v.t = "str"  -> <<"\"">> \o v.s \o <<"\"">>
      [] v.t = "none" -> <<"null">>
      [] v.t = "bool" -> IF v.n = 1 THEN <<"true">> ELSE <<"false">>
      [] v.t = "int"  -> <<ToString(v.n)>>
      [] v.t = "list" -> IF v.n = 0 THEN <<"[", "]">> ELSE <<"[", "1", "]">>
      [] v.t = "dict" -> IF v.n = 0 THEN <<"{", "}">> ELSE <<"{", "\"k\": 1", "}">>

JsonValues ==
    {PyStr(s) : s \in Texts} \cup {PyNone, PyBool(FALSE), PyBool(TRUE)}
    \cup {PyInt(0), PyInt(42), PyList(0), PyList(1), PyDict(0), PyDict(1)}


----------------------------------------------------------------------------
(* The responder's answers, as _post_to_n8n hands them to the caller.       *)

NoValue == PyNone

\* requests.post raised (ConnectionError, Timeout, ...); reason is str(e)
Exc(reason) ==
    [kind |-> "exc", reason |-> reason, status_code |-> 0,
     body |-> "none", val |-> NoValue, text |-> << >>]

\* a response whose body is a JSON object with key "reply" holding v
ObjReply(status, v) ==
    [kind |-> "http", reason |-> << >>, status_code |-> status,
     body |-> "object_with_reply", val |-> v, text |-> << >>]

\* a response whose body is the JSON value v, v no object with key "reply"
Json(status, v) ==
    [kind |-> "http", reason |-> << >>, status_code |-> status,
     body |-> "json", val |-> v, text |-> << >>]

\* a response whose body does not parse as JSON (resp.json() raises)
Plain(status, s) ==
    [kind |-> "http", reason |-> << >>, status_code |-> status,
     body |-> "text", val |-> NoValue, text |-> s]

NoResp ==
    [kind |-> "none", reason |-> << >>, status_code |-> 0,
     body |-> "none", val |-> NoValue, text |-> << >>]

Reasons == {<< >>, <<"timed out">>}

OtherStatusCodes == {201, 500}

Responses ==
    {Exc(r) : r \in Reasons}
    \cup {ObjReply(200, v) : v \in JsonValues}
    \cup {Json(200, v) : v \in JsonValues}
    \cup {Plain(200, s) : s \in Texts}
    \cup UNION {{ObjReply(st, PyStr(<<"a">>)), Json(st, PyInt(42)), Plain(st, <<"a">>)}
                : st \in OtherStatusCodes}

\* resp.status_code == 200 (line 101)
StatusOk(status) == status = 200

\* isinstance(data, dict) and "reply" in data (line 105)
UseReplyField(r) == r.body = "object_with_reply"

\* the value reply_text holds after the try statement of lines 97-119
ReplyText(r) ==
    IF r.kind = "exc"
    THEN PyStr(<<"[Gagal konek ke n8n:", " ">> \o r.reason \o <<"]">>)
    ELSE IF StatusOk(r.status_code)
    THEN IF r.body = "text"
         THEN PyStr(r.text)
         ELSE IF UseReplyField(r)
              THEN r.val
              ELSE IF r.val.t = "str" THEN r.val ELSE PyStr(Dumps(r.val))
    ELSE PyStr(<<"[n8n error", " ", ToString(r.status_code), "]">>)

Sentinel == <<"Maaf, saya tidak dapat menjawab sekarang.">>

\* (reply_text or "") of line 123
OrEmpty(v) == IF Truthy(v) THEN v ELSE PyStr(<< >>)

\* line 123 raises AttributeError: the operand of .strip() is no str
StripRaises(v) == OrEmpty(v).t # "str"

\* (reply_text or "").strip() or "Maaf, ..." (line 123), for a str operand
CleanReply(v) ==
    LET s == Strip(OrEmpty(v).s) IN IF s # << >> THEN s ELSE Sentinel

NoOutput == [display_text |-> << >>, tts_text |-> << >>, actions |-> "none"]

\* SentenceOutput(display_text=DisplayText(text=...), tts_text=..., actions=Actions())
SentenceOutput(text) ==
    [display_text |-> text, tts_text |-> text, actions |-> "empty"]

\* metadata and metadata.get("skip_history", False) (line 79), as a truth value
Metadatas == {"None", "{}", "{skip_history: True}", "{skip_history: False}"}

SkipHistoryMutant(m) == FALSE

SkipHistory(m) == m = "{skip_history: True}"

----------------------------------------------------------------------------
(* The turn.                                                                *)

TextInput(s) == [kind |-> "text", text |-> s]
AudioInput   == [kind |-> "audio", text |-> << >>]

UserInputs == {TextInput(<<"h", "i">>), AudioInput}

\* what the ASR engine may transcribe an audio input to
AsrTexts == {<<"h", "i">>}

HistoryUids == {"", "uid1"}

\* one call on a collaborator: ev names it, ok tells whether it went through,
\* txt is the text it carried
Event(ev, ok, txt) == [ev |-> ev, ok |-> ok, txt |-> txt]

Log(e) == trace' = Append(trace, e)

Count(ev) == Cardinality({i \in DOMAIN trace : trace[i].ev = ev})

Index(ev) == CHOOSE i \in DOMAIN trace : trace[i].ev = ev

Settled == {"done", "failed", "cancelled"}

\* a gather that waits until every task has succeeded
AllDoneMutant(tl) == \A i \in DOMAIN tl : tl[i] = "done"

AllSettledMutant(tl) == tl = << >> \/ tl[1] \in Settled

\* asyncio.gather(*task_list, return_exceptions=True) is done (line 153)
AllSettled(tl) == \A i \in DOMAIN tl : tl[i] \in Settled

\* the awaits of the coroutine, where a cancellation can be delivered
SuspensionPoints ==
    {"signal", "input", "fetch", "render", "fallback_send", "barrier",
     "synth_send", "finalize", "error_send"}

\* the awaits that are one websocket_send of the coroutine itself
SendPoints == {"fallback_send", "synth_send", "error_send"}

Init ==
    /\ user_input \in UserInputs
    /\ metadata \in Metadatas
    /\ history_uid \in HistoryUids
    /\ pc = "signal"
    /\ input_text = << >>
    /\ skip_history = FALSE
    /\ resp = NoResp
    /\ reply_text = PyStr(<< >>)
    /\ clean_reply = << >>
    /\ sentence_output = NoOutput
    /\ task_list = << >>
    /\ full_response = << >>
    /\ err = "none"
    /\ outcome = "running"
    /\ trace = << >>
    /\ detached = 0

\* an exception reaches the handler of lines 183-186, which awaits the send
\* of the error event
Raise(e) ==
    /\ err' = e
    /\ pc' = "error_send"

\* line 62 returns
StartSignalsDone ==
    /\ pc = "signal"
    /\ Log(Event("start_signal", TRUE, << >>))
    /\ pc' = "input"
    /\ UNCHANGED << detached, user_input, metadata, history_uid, input_text,
                    skip_history, resp, reply_text, clean_reply,
                    sentence_output, task_list, full_response, err, outcome >>

\* line 62 raises: the transport failed under send_conversation_start_signals
StartSignalsRaise ==
    /\ pc = "signal"
    /\ Log(Event("start_signal", FALSE, << >>))
    /\ Raise("TransportError")
    /\ UNCHANGED << detached, user_input, metadata, history_uid, input_text,
                    skip_history, resp, reply_text, clean_reply,
                    sentence_output, task_list, full_response, outcome >>

\* lines 66-68 return
ProcessUserInputDone ==
    /\ pc = "input"
    /\ \E t \in (IF user_input.kind = "text" THEN {user_input.text} ELSE AsrTexts) :
           /\ input_text' = t
           /\ Log(Event("input", TRUE, t))
    /\ pc' = "history_user"
    /\ UNCHANGED << detached, user_input, metadata, history_uid, skip_history,
                    resp, reply_text, clean_reply, sentence_output, task_list,
                    full_response, err, outcome >>

\* process_user_input fails and the turn goes on with an empty input text
ProcessUserInputRaiseMutant ==
    /\ pc = "input"
    /\ user_input.kind = "audio"
    /\ Log(Event("input", FALSE, << >>))
    /\ input_text' = << >>
    /\ pc' = "history_user"
    /\ UNCHANGED << detached, user_input, metadata, history_uid, skip_history,
                    resp, reply_text, clean_reply, sentence_output, task_list,
                    full_response, err, outcome >>

\* lines 66-68 raise: the ASR engine failed
ProcessUserInputRaise ==
    /\ pc = "input"
    /\ user_input.kind = "audio"
    /\ Log(Event("input", FALSE, << >>))
    /\ Raise("ASRError")
    /\ UNCHANGED << detached, user_input, metadata, history_uid, input_text,
                    skip_history, resp, reply_text, clean_reply,
                    sentence_output, task_list, full_response, outcome >>

\* lines 71-99: the "human" entry is stored unless skipped, then the request
\* to the webhook is issued
StoreHuman ==
    /\ pc = "history_user"
    /\ skip_history' = SkipHistory(metadata)
    /\ IF history_uid # "" /\ ~SkipHistory(metadata)
       THEN trace' = trace \o <<Event("store_human", TRUE, input_text),
                                Event("fetch", TRUE, input_text)>>
       ELSE Log(Event("fetch", TRUE, input_text))
    /\ pc' = "fetch"
    /\ UNCHANGED << detached, user_input, metadata, history_uid, input_text,
                    resp, reply_text, clean_reply, sentence_output, task_list,
                    full_response, err, outcome >>

\* lines 71-87: store_message raises
StoreHumanRaise ==
    /\ pc = "history_user"
    /\ history_uid # "" /\ ~SkipHistory(metadata)
    /\ skip_history' = SkipHistory(metadata)
    /\ Log(Event("store_human", FALSE, input_text))
    /\ Raise("HistoryError")
    /\ UNCHANGED << detached, user_input, metadata, history_uid, input_text,
                    resp, reply_text, clean_reply, sentence_output, task_list,
                    full_response, outcome >>

\* lines 99-119: the await of _post_to_n8n ends, with a response or an
\* exception, and reply_text is set from it
FetchSettleFrom(answers) ==
    /\ pc = "fetch"
    /\ \E r \in answers :
           /\ resp' = r
           /\ reply_text' = ReplyText(r)
    /\ pc' = "build"
    /\ UNCHANGED << detached, user_input, metadata, history_uid, input_text,
                    skip_history, clean_reply, sentence_output, task_list,
                    full_response, err, outcome, trace >>

FetchSettle == FetchSettleFrom(Responses)

\* lines 123-139: the SentenceOutput is built and process_agent_output called
BuildOutput ==
    /\ pc = "build"
    /\ ~StripRaises(reply_text)
    /\ clean_reply' = CleanReply(reply_text)
    /\ sentence_output' = SentenceOutput(CleanReply(reply_text))
    /\ trace' = trace \o <<Event("output_built", TRUE, CleanReply(reply_text)),
                             Event("render", TRUE, CleanReply(reply_text))>>
    /\ pc' = "render"
    /\ UNCHANGED << detached, user_input, metadata, history_uid, input_text,
                    skip_history, resp, reply_text, task_list, full_response,
                    err, outcome >>

\* line 123 raises AttributeError
BuildOutputRaise ==
    /\ pc = "build"
    /\ StripRaises(reply_text)
    /\ Log(Event("build_raise", TRUE, << >>))
    /\ Raise("AttributeError")
    /\ UNCHANGED << detached, user_input, metadata, history_uid, input_text,
                    skip_history, resp, reply_text, clean_reply,
                    sentence_output, task_list, full_response, outcome >>

\* what process_agent_output may return for an output: None or a text
RenderParts(out) ==
    {PyNone, PyStr(<< >>), PyStr(out.display_text), PyStr(<<"o", "k">>)}

\* str(response_part) if response_part is not None else "" (line 140)
PartStr(v) == IF v.t = "none" THEN << >> ELSE v.s

AccumulatePartMutant(full, part) == full

\* full_response += response_part_str (line 141)
AccumulatePart(full, part) == full \o part

AccumulateFallbackMutant(full, clean) == full

\* full_response += clean_reply (line 149)
AccumulateFallback(full, clean) == full \o clean

GroupEmptyMutant(tl) == TRUE

\* not tts_manager.task_list (line 152)
GroupEmpty(tl) == tl = << >>

\* tts_manager.clear(), called by cleanup_conversation
ClearGroup(tl) == << >>

\* process_agent_output registers one more TTS task on tts_manager
RenderRegister ==
    /\ pc = "render"
    /\ Len(task_list) < MaxTasks
    /\ task_list' = Append(task_list, "pending")
    /\ UNCHANGED << detached, user_input, metadata, history_uid, pc,
                    input_text, skip_history, resp, reply_text, clean_reply,
                    sentence_output, full_response, err, outcome, trace >>

\* a TTS task of the group ends, with a result or with an exception; one
\* that the gather cancelled ends cancelled
TaskSettle ==
    /\ \E i \in DOMAIN task_list :
           \E st \in Settled :
               /\ \/ task_list[i] = "pending" /\ st \in {"done", "failed"}
                  \/ task_list[i] = "cancelling" /\ st = "cancelled"
               /\ task_list' = [task_list EXCEPT ![i] = st]
    /\ UNCHANGED << detached, user_input, metadata, history_uid, pc,
                    input_text, skip_history, resp, reply_text, clean_reply,
                    sentence_output, full_response, err, outcome, trace >>

\* lines 131-141: process_agent_output returns
RenderReturn ==
    /\ pc = "render"
    /\ \E part \in RenderParts(sentence_output) :
           /\ full_response' = AccumulatePart(full_response, PartStr(part))
           /\ Log(Event("render_done", TRUE, PartStr(part)))
    /\ pc' = "drain"
    /\ UNCHANGED << detached, user_input, metadata, history_uid, input_text,
                    skip_history, resp, reply_text, clean_reply,
                    sentence_output, task_list, err, outcome >>

\* lines 142-146: process_agent_output raises and the fallback send is awaited
RenderRaise ==
    /\ pc = "render"
    /\ Log(Event("render_raise", TRUE, << >>))
    /\ pc' = "fallback_send"
    /\ UNCHANGED << detached, user_input, metadata, history_uid, input_text,
                    skip_history, resp, reply_text, clean_reply,
                    sentence_output, task_list, full_response, err, outcome >>

\* the renderer's failure is swallowed without the fallback send
FallbackSendMutant ==
    /\ pc = "fallback_send"
    /\ full_response' = AccumulateFallback(full_response, clean_reply)
    /\ pc' = "drain"
    /\ UNCHANGED << detached, user_input, metadata, history_uid, input_text,
                    skip_history, resp, reply_text, clean_reply,
                    sentence_output, task_list, err, outcome, trace >>

\* lines 146-149: the fallback send ends (delivered, or failed and swallowed)
FallbackSend ==
    /\ pc = "fallback_send"
    /\ \E ok \in BOOLEAN : Log(Event("text", ok, clean_reply))
    /\ full_response' = AccumulateFallback(full_response, clean_reply)
    /\ pc' = "drain"
    /\ UNCHANGED << detached, user_input, metadata, history_uid, input_text,
                    skip_history, resp, reply_text, clean_reply,
                    sentence_output, task_list, err, outcome >>

CallFinalize == Event("finalize", TRUE, << >>)

\* lines 152-153: a non-empty task list is gathered
DrainGather ==
    /\ pc = "drain"
    /\ ~GroupEmpty(task_list)
    /\ pc' = "barrier"
    /\ UNCHANGED << detached, user_input, metadata, history_uid, input_text,
                    skip_history, resp, reply_text, clean_reply,
                    sentence_output, task_list, full_response, err, outcome,
                    trace >>

\* lines 152, 160: with an empty task list finalize is called at once
DrainSkip ==
    /\ pc = "drain"
    /\ GroupEmpty(task_list)
    /\ Log(CallFinalize)
    /\ pc' = "finalize"
    /\ UNCHANGED << detached, user_input, metadata, history_uid, input_text,
                    skip_history, resp, reply_text, clean_reply,
                    sentence_output, task_list, full_response, err, outcome >>

ReturnExceptionsMutant == FALSE

\* the argument return_exceptions of the gather (line 153)
ReturnExceptions == TRUE

\* lines 153-155: the gather is done and the synthesis-complete send awaited;
\* without return_exceptions the exception of a task would be raised at the
\* await
BarrierDone ==
    /\ pc = "barrier"
    /\ AllSettled(task_list)
    /\ IF ReturnExceptions \/ \A i \in DOMAIN task_list : task_list[i] # "failed"
       THEN /\ Log(Event("barrier_done", TRUE, << >>))
            /\ pc' = "synth_send"
            /\ UNCHANGED err
       ELSE /\ Log(Event("barrier_raise", TRUE, << >>))
            /\ Raise("TaskError")
    /\ UNCHANGED << detached, user_input, metadata, history_uid, input_text,
                    skip_history, resp, reply_text, clean_reply,
                    sentence_output, task_list, full_response, outcome >>

\* finalize is called before the synthesis-complete event is sent
SynthSendMutant ==
    /\ pc = "synth_send"
    /\ \E ok \in BOOLEAN :
           trace' = trace \o <<CallFinalize, Event("backend-synth-complete", ok, << >>)>>
    /\ pc' = "finalize"
    /\ UNCHANGED << detached, user_input, metadata, history_uid, input_text,
                    skip_history, resp, reply_text, clean_reply,
                    sentence_output, task_list, full_response, err, outcome >>

\* lines 155-160: the synthesis-complete send ends (delivered, or failed and
\* swallowed) and finalize is called
SynthSend ==
    /\ pc = "synth_send"
    /\ \E ok \in BOOLEAN :
           trace' = trace \o <<Event("backend-synth-complete", ok, << >>), CallFinalize>>
    /\ pc' = "finalize"
    /\ UNCHANGED << detached, user_input, metadata, history_uid, input_text,
                    skip_history, resp, reply_text, clean_reply,
                    sentence_output, task_list, full_response, err, outcome >>

\* lines 160-164 return
FinalizeDone ==
    /\ pc = "finalize"
    /\ Log(Event("finalize_done", TRUE, << >>))
    /\ pc' = "history_ai"
    /\ UNCHANGED << detached, user_input, metadata, history_uid, input_text,
                    skip_history, resp, reply_text, clean_reply,
                    sentence_output, task_list, full_response, err, outcome >>

\* lines 160-164 raise
FinalizeRaise ==
    /\ pc = "finalize"
    /\ Log(Event("finalize_raise", TRUE, << >>))
    /\ Raise("FinalizeError")
    /\ UNCHANGED << detached, user_input, metadata, history_uid, input_text,
                    skip_history, resp, reply_text, clean_reply,
                    sentence_output, task_list, full_response, outcome >>

CleanupEvent == Event("cleanup", TRUE, << >>)

FinallyMutant(exit, events) ==
    IF exit = "return" THEN events \o <<CleanupEvent>> ELSE events

\* lines 190-191: whatever way the try statement is left (exit), after the
\* calls of its last step (events) cleanup_conversation is called
Finally(exit, events) == events \o <<CleanupEvent>>

\* the work a call that ends at `at` leaves running: the thread that
\* asyncio.to_thread started (line 38) when the await of the fetch is given
\* up, and the tasks of the group that are still pending
Abandoned(at, tl) ==
    (IF at = "fetch" THEN 1 ELSE 0)
        + Cardinality({i \in DOMAIN tl : tl[i] = "pending"})

\* the call ends: it returns full_response or raises the exception in flight,
\* and cleanup_conversation has cleared the task group
Leave(how) ==
    /\ outcome' = how
    /\ task_list' = ClearGroup(task_list)
    /\ detached' = Abandoned(pc, task_list)
    /\ pc' = "done"

HasAiEntryMutant(uid, full) == uid # ""

\* context.history_uid and full_response (line 167)
HasAiEntry(uid, full) == uid # "" /\ full # << >>

\* lines 167-178, 190-191: the "ai" entry is stored if there is one, and the
\* call returns
StoreAi ==
    /\ pc = "history_ai"
    /\ trace' = trace \o Finally("return",
                    IF HasAiEntry(history_uid, full_response)
                    THEN <<Event("store_ai", TRUE, full_response)>>
                    ELSE << >>)
    /\ Leave("returned")
    /\ UNCHANGED << user_input, metadata, history_uid, input_text,
                    skip_history, resp, reply_text, clean_reply,
                    sentence_output, full_response, err >>

\* lines 167-175: store_message raises
StoreAiRaise ==
    /\ pc = "history_ai"
    /\ HasAiEntry(history_uid, full_response)
    /\ Log(Event("store_ai", FALSE, full_response))
    /\ Raise("HistoryError")
    /\ UNCHANGED << detached, user_input, metadata, history_uid, input_text,
                    skip_history, resp, reply_text, clean_reply,
                    sentence_output, task_list, full_response, outcome >>

\* the send of the error event has no handler of its own: when it fails, the
\* exception of the transport takes the place of the one in flight
ErrorSendMutant ==
    /\ pc = "error_send"
    /\ \E ok \in BOOLEAN :
           /\ trace' = trace \o Finally("error", <<Event("error", ok, << >>)>>)
           /\ err' = IF ok THEN err ELSE "TransportError"
    /\ Leave("raised")
    /\ UNCHANGED << user_input, metadata, history_uid, input_text,
                    skip_history, resp, reply_text, clean_reply,
                    sentence_output, full_response >>

\* lines 186-191: the send of the error event ends (delivered, or failed and
\* swallowed) and the exception is raised again
ErrorSend ==
    /\ pc = "error_send"
    /\ \E ok \in BOOLEAN :
           trace' = trace \o Finally("error", <<Event("error", ok, << >>)>>)
    /\ Leave("raised")
    /\ UNCHANGED << user_input, metadata, history_uid, input_text,
                    skip_history, resp, reply_text, clean_reply,
                    sentence_output, full_response, err >>

\* the event a websocket_send of the coroutine carries
SendEvent(at) ==
    CASE at = "fallback_send" -> Event("text", TRUE, clean_reply)
      [] at = "synth_send"    -> Event("backend-synth-complete", TRUE, << >>)
      [] at = "error_send"    -> Event("error", TRUE, << >>)

AbsorbsCancelMutant(at) == at = "fetch"

\* whether the handler "except Exception" around the await at `at` (lines 117,
\* 142, 147, 156, 183, 187) catches the CancelledError raised there: it does
\* not, CancelledError derives from BaseException
AbsorbsCancel(at) == FALSE

\* requests-style failure text of a cancelled await, str(CancelledError()) = ""
CancelledAsFailure == Exc(<< >>)

SomePending(tl) == \E i \in DOMAIN tl : tl[i] = "pending"

\* lines 180-182, 190-191: the task running the coroutine is cancelled while
\* it awaits; CancelledError is raised at the await and raised again by the
\* handler.  A send that is cancelled may or may not have gone out already.
\* A gather that still waits for a task is cancelled by CancelGather.
Cancel ==
    /\ pc \in SuspensionPoints
    /\ pc = "barrier" => ~SomePending(task_list)
    /\ IF AbsorbsCancel(pc)
       THEN /\ Log(Event("cancel", TRUE, <<pc>>))
            /\ resp' = CancelledAsFailure
            /\ reply_text' = ReplyText(CancelledAsFailure)
            /\ pc' = "build"
            /\ UNCHANGED << task_list, err, outcome, detached >>
       ELSE /\ \/ trace' = trace \o Finally("cancel", <<Event("cancel", TRUE, <<pc>>)>>)
               \/ /\ pc \in SendPoints
                  /\ trace' = trace \o <<SendEvent(pc)>>
                                \o Finally("cancel", <<Event("cancel", TRUE, <<pc>>)>>)
            /\ err' = "CancelledError"
            /\ Leave("cancelled")
            /\ UNCHANGED << resp, reply_text >>
    /\ UNCHANGED << user_input, metadata, history_uid, input_text,
                    skip_history, clean_reply, sentence_output,
                    full_response >>

\* line 153: the task running the coroutine is cancelled while the gather
\* still waits for a task; the gather cancels every task that is not done and
\* goes on waiting until each of them has ended
CancelGather ==
    /\ pc = "barrier"
    /\ SomePending(task_list)
    /\ task_list' = [i \in DOMAIN task_list |->
                        IF task_list[i] = "pending" THEN "cancelling"
                                                    ELSE task_list[i]]
    /\ Log(Event("gather_cancel", TRUE, << >>))
    /\ pc' = "barrier_cancelling"
    /\ UNCHANGED << detached, user_input, metadata, history_uid, input_text,
                    skip_history, resp, reply_text, clean_reply,
                    sentence_output, full_response, err, outcome >>

GatherPropagatesCancelMutant == FALSE

\* whether a gather that was cancelled raises CancelledError at line 153 when
\* its tasks have ended, although return_exceptions is set: it does
GatherPropagatesCancel == TRUE

\* lines 153, 180-182, 190-191: every task of the cancelled gather has ended;
\* CancelledError is raised at the await and raised again by the handler
GatherCancelled ==
    /\ pc = "barrier_cancelling"
    /\ AllSettled(task_list)
    /\ IF GatherPropagatesCancel
       THEN /\ trace' = trace \o Finally("cancel",
                                         <<Event("cancel", TRUE, <<"barrier">>)>>)
            /\ err' = "CancelledError"
            /\ Leave("cancelled")
       ELSE /\ Log(Event("barrier_done", TRUE, << >>))
            /\ pc' = "synth_send"
            /\ UNCHANGED << task_list, err, outcome, detached >>
    /\ UNCHANGED << user_input, metadata, history_uid, input_text,
                    skip_history, resp, reply_text, clean_reply,
                    sentence_output, full_response >>

\* work that the ended call left running ends; its result goes nowhere
DetachedSettle ==
    /\ pc = "done"
    /\ detached > 0
    /\ detached' = detached - 1
    /\ UNCHANGED << user_input, metadata, history_uid, pc, input_text,
                    skip_history, resp, reply_text, clean_reply,
                    sentence_output, task_list, full_response, err, outcome,
                    trace >>

Next ==
    \/ StartSignalsDone
    \/ StartSignalsRaise
    \/ ProcessUserInputDone
    \/ ProcessUserInputRaise
    \/ StoreHuman
    \/ StoreHumanRaise
    \/ FetchSettle
    \/ BuildOutput
    \/ BuildOutputRaise
    \/ RenderRegister
    \/ TaskSettle
    \/ RenderReturn
    \/ RenderRaise
    \/ FallbackSend
    \/ DrainGather
    \/ DrainSkip
    \/ BarrierDone
    \/ SynthSend
    \/ FinalizeDone
    \/ FinalizeRaise
    \/ StoreAi
    \/ StoreAiRaise
    \/ ErrorSend
    \/ Cancel
    \/ CancelGather
    \/ GatherCancelled
    \/ DetachedSettle

Spec == Init /\ [][Next]_vars

\* The turns whose fetch ends with one of a few answers: a timeout, a reply,
\* a reply that is no text.
LiveResponses ==
    {Exc(<<"timed out">>), ObjReply(200, PyStr(<<"a">>)), ObjReply(200, PyBool(TRUE))}

FetchSettleLive == FetchSettleFrom(LiveResponses)

\* what happens when the awaited call returns or raises, a task ends, or the
\* coroutine goes on to its next await: every step but a cancellation
Progress ==
    \/ StartSignalsDone
    \/ StartSignalsRaise
    \/ ProcessUserInputDone
    \/ ProcessUserInputRaise
    \/ StoreHuman
    \/ StoreHumanRaise
    \/ FetchSettleLive
    \/ BuildOutput
    \/ BuildOutputRaise
    \/ RenderRegister
    \/ TaskSettle
    \/ RenderReturn
    \/ RenderRaise
    \/ FallbackSend
    \/ DrainGather
    \/ DrainSkip
    \/ BarrierDone
    \/ SynthSend
    \/ FinalizeDone
    \/ FinalizeRaise
    \/ StoreAi
    \/ StoreAiRaise
    \/ ErrorSend
    \/ GatherCancelled
    \/ DetachedSettle

NextLive ==
    \/ Progress
    \/ Cancel
    \/ CancelGather

\* the event loop runs the coroutine and the tasks whenever they can run, the
\* request has a timeout (line 37), and awaited collaborators return or raise
SpecLive == Init /\ [][NextLive]_vars /\ WF_vars(Progress)

----------------------------------------------------------------------------
(* What the claims speak of, read off the trace.                            *)

Has(ev) == \E i \in DOMAIN trace : trace[i].ev = ev

\* the turn was cancelled while it awaited at one of the places in S
CancelledAt(S) ==
    \E i \in DOMAIN trace : trace[i].ev = "cancel" /\ trace[i].txt[1] \in S

NoPendingTask == \A i \in DOMAIN task_list : task_list[i] # "pending"

LastEvent == trace[Len(trace)]

\* the awaits of a turn that come before the call of finalize
BeforeFinalize == {"signal", "input", "fetch", "render", "fallback_send",
                   "barrier", "synth_send"}

\* the statements and awaits from the call of process_agent_output up to the
\* end of the synthesis-complete step
RenderToDrain ==
    {"render", "fallback_send", "drain", "barrier", "barrier_cancelling",
     "synth_send"}

----------------------------------------------------------------------------
\* C1: the synthesis-complete event is sent (or its send begun) only when no
\* registered task is still pending, and only after the barrier returned;
\* finalize is called only when the synthesis-complete step is over: no task
\* is pending, the coroutine is past the barrier and the send, and, when the
\* barrier was awaited, the event attempt comes before the call of finalize.
C1_SynthCompleteAfterTasksSettled ==
    /\ (pc = "synth_send" \/ Has("backend-synth-complete")) =>
           /\ NoPendingTask
           /\ Has("barrier_done")
           /\ Has("backend-synth-complete") =>
                  Index("barrier_done") < Index("backend-synth-complete")
    /\ Has("finalize") =>
           /\ NoPendingTask
           /\ pc \notin RenderToDrain
           /\ (task_list # << >>) => Has("barrier_done")
           /\ Has("barrier_done") =>
                  /\ Has("backend-synth-complete")
                  /\ Index("backend-synth-complete") < Index("finalize")

\* C1 witness: finalize has been called after a barrier over two tasks, one of
\* which failed, and after a delivered synthesis-complete event.
C1_Witness ==
    /\ pc = "finalize"
    /\ Len(task_list) = 2
    /\ \E i \in DOMAIN task_list : task_list[i] = "failed"
    /\ \E i \in DOMAIN trace : trace[i].ev = "backend-synth-complete" /\ trace[i].ok

----------------------------------------------------------------------------
\* C2 (as claimed): every turn that ended, whatever the outcome of its input,
\* fetch, render and barrier steps, has called finalize exactly once.  Turns
\* that were cancelled or that failed on the transport or on the history sink
\* are left out.
C2_FinalizeExactlyOnceEveryTurn ==
    (pc = "done" /\ err \in {"none", "ASRError", "AttributeError", "FinalizeError"})
        => Count("finalize") = 1

\* C2 (amended): finalize is called at most once per turn and only after the
\* TASKS_DRAINED step (right after the render step when the group is empty,
\* right after the synthesis-complete attempt otherwise); it is called exactly
\* once in every turn that built its output and was not cancelled before the
\* call, whatever the outcome of the render and barrier steps.
C2_FinalizeOnceAfterDrain ==
    /\ Count("finalize") <= 1
    /\ Has("finalize") =>
           /\ trace[Index("finalize") - 1].ev \in
                  {"render_done", "text", "backend-synth-complete"}
           /\ (trace[Index("finalize") - 1].ev # "backend-synth-complete"
               /\ pc \in {"finalize", "history_ai"}) => task_list = << >>
           /\ NoPendingTask
    /\ (Has("output_built") /\ pc \notin RenderToDrain /\ ~CancelledAt(BeforeFinalize))
           => Count("finalize") = 1
    /\ ~Has("output_built") => ~Has("finalize")

\* C2 witness: a turn whose render step raised and whose barrier was awaited
\* has returned, with finalize called once.
C2_Witness ==
    /\ outcome = "returned"
    /\ Has("render_raise")
    /\ Has("barrier_done")
    /\ Count("finalize") = 1

----------------------------------------------------------------------------
\* C3: the call has ended exactly when cleanup_conversation has been called,
\* it is called at most once, and it is the last call of the turn: once it is
\* in the trace it is the last entry, so no UI event and no history entry
\* follows it.  This holds on each exit path: return, raise, cancellation.
C3_CleanupOnceAndLast ==
    /\ Count("cleanup") <= 1
    /\ (pc = "done") <=> Has("cleanup")
    /\ (pc = "done") <=> (outcome # "running")
    /\ Has("cleanup") => LastEvent.ev = "cleanup"

\* C3 witness: a turn cancelled at the task barrier has ended with cleanup as
\* its last call.
C3_Witness ==
    /\ pc = "done"
    /\ outcome = "cancelled"
    /\ CancelledAt({"barrier"})
    /\ LastEvent.ev = "cleanup"

----------------------------------------------------------------------------
\* C4: a turn that is cancelled at an await ends by raising CancelledError
\* (not an error, not a return), cleanup_conversation is called right after
\* the cancellation, no error event is sent for it, and a cancellation during
\* the fetch leaves no reply text and no output behind.
C4_CancellationReraised ==
    Has("cancel") =>
        /\ outcome = "cancelled"
        /\ err = "CancelledError"
        /\ pc = "done"
        /\ LastEvent.ev = "cleanup"
        /\ trace[Len(trace) - 1].ev = "cancel"
        /\ ~CancelledAt({"error_send"}) => ~Has("error")
        /\ CancelledAt({"fetch"}) =>
               /\ resp = NoResp
               /\ reply_text = PyStr(<< >>)
               /\ ~Has("output_built")

\* C4 witness: a turn cancelled during the fetch has ended cancelled.
C4_Witness ==
    /\ CancelledAt({"fetch"})
    /\ outcome = "cancelled"
    /\ Has("cleanup")

----------------------------------------------------------------------------
\* C5 (as claimed): whatever the fetch ended with, once reply_text is set the
\* turn builds its output: no AttributeError is in flight and, past the build
\* statement, the output has been built.
C5_FetchNeverFailsTurn ==
    (resp # NoResp) =>
        /\ err # "AttributeError"
        /\ pc # "build" => Has("output_built")

----------------------------------------------------------------------------
\* the texts the priority rules of the claim allow for a 2xx response, before
\* the rule of the fallback sentinel
ClaimedTexts(r) ==
    CASE r.body = "text" -> {r.text}
      [] r.body = "object_with_reply" ->
             IF r.val.t = "str" THEN {r.val.s} ELSE {Dumps(r.val), << >>}
      [] r.body = "json" ->
             IF r.val.t = "str" THEN {r.val.s, Dumps(r.val)} ELSE {Dumps(r.val)}

\* the text t, or the sentinel when t is empty or all whitespace
TrimOrSentinel(t) ==
    IF \A i \in DOMAIN t : t[i] \in Whitespace
    THEN Sentinel
    ELSE LET first == CHOOSE i \in DOMAIN t :
                         /\ t[i] \notin Whitespace
                         /\ \A j \in 1..(i - 1) : t[j] \in Whitespace
             last  == CHOOSE i \in DOMAIN t :
                         /\ t[i] \notin Whitespace
                         /\ \A j \in (i + 1)..Len(t) : t[j] \in Whitespace
         IN SubSeq(t, first, last)

\* a text of the form [<reason>]
Bracketed(t) ==
    /\ Len(t) >= 2
    /\ Head(t) \in {"[Gagal konek ke n8n:", "[n8n error"}
    /\ t[Len(t)] = "]"

\* C6 (as claimed): the display text of every turn that built its output
\* follows the priority rules: bracketed for a failed fetch or a non-2xx
\* status, and for any 2xx status the "reply" field, the JSON value as text
\* or the raw body, with the sentinel in place of an empty or blank result.
C6_NormalizationFollowsRules ==
    Has("output_built") =>
        IF resp.kind = "exc" \/ resp.status_code \notin 200..299
        THEN Bracketed(clean_reply)
        ELSE clean_reply \in {TrimOrSentinel(t) : t \in ClaimedTexts(resp)}

----------------------------------------------------------------------------
\* C7: a turn builds at most one SentenceOutput, and has built it when it is
\* past the build statement with no error in flight; its display text is not
\* empty and neither starts nor ends with whitespace, its synthesis text is
\* its display text, its actions are the empty default, and it still is what
\* it was built as (the text the build logged).
C7_TurnOutputWellFormed ==
    /\ Count("output_built") <= 1
    /\ pc \in (RenderToDrain \cup {"finalize", "history_ai"}) => Has("output_built")
    /\ ~Has("output_built") => sentence_output = NoOutput
    /\ Has("output_built") =>
           LET d == sentence_output.display_text IN
           /\ d # << >>
           /\ d[1] \notin Whitespace
           /\ d[Len(d)] \notin Whitespace
           /\ sentence_output.tts_text = d
           /\ sentence_output.actions = "empty"
           /\ d = trace[Index("output_built")].txt
           /\ d = clean_reply

\* C7 witness: a reply with whitespace on both sides was built into an output
\* whose display text is the trimmed reply, and the turn went on to return.
C7_Witness ==
    /\ outcome = "returned"
    /\ reply_text = PyStr(<<" ", "a", "\n">>)
    /\ sentence_output = [display_text |-> <<"a">>, tts_text |-> <<"a">>,
                          actions |-> "empty"]

----------------------------------------------------------------------------
\* C8: once process_agent_output has raised, the turn goes on: the fallback
\* text event carrying the display text is attempted (before any call of
\* finalize), the display text is what the response accumulator holds, the
\* barrier is awaited when tasks were registered, finalize is called unless
\* the turn is cancelled first, an error that ends the turn comes from a
\* later collaborator, and a turn that returns has called finalize, returns a
\* non-empty response and has stored it as the "ai" entry when a sink is
\* configured.  A failed fallback send changes none of this.
C8_RenderFailureAbsorbed ==
    Has("render_raise") =>
        /\ clean_reply # << >>
        /\ (pc # "fallback_send" /\ ~CancelledAt({"fallback_send"})) =>
               /\ Count("text") = 1
               /\ trace[Index("text")].txt = clean_reply
               /\ full_response = clean_reply
        /\ Has("finalize") => (Has("text") /\ Index("text") < Index("finalize"))
        /\ (pc \notin RenderToDrain /\ ~CancelledAt(BeforeFinalize)) =>
               Count("finalize") = 1
        /\ (pc \in {"finalize", "history_ai"} /\ task_list # << >>) =>
               Has("barrier_done")
        /\ outcome = "raised" => err \in {"FinalizeError", "HistoryError"}
        /\ outcome = "returned" =>
               /\ full_response # << >>
               /\ Has("finalize_done")
               /\ history_uid # "" =>
                      trace[Len(trace) - 1] = Event("store_ai", TRUE, clean_reply)

\* C8 witness: the renderer raised after registering a task, the fallback
\* send failed on the transport, and the turn returned its display text after
\* the barrier, finalize and the "ai" entry.
C8_Witness ==
    /\ outcome = "returned"
    /\ Has("render_raise")
    /\ Has("text") /\ ~trace[Index("text")].ok
    /\ Has("barrier_done")
    /\ Has("store_ai")
    /\ full_response = clean_reply

----------------------------------------------------------------------------
\* C9: in a turn whose metadata has skip_history = True no "human" entry is
\* ever stored and no history failure stops the turn before the fetch; the
\* turn goes on to the fetch and the later steps all the same, and a turn that
\* returns with a sink configured and a non-empty response has stored that
\* response as one "ai" entry.
C9_SkipHistoryNoHumanEntry ==
    metadata = "{skip_history: True}" =>
        /\ ~Has("store_human")
        /\ ~Has("fetch") => err # "HistoryError"
        /\ pc \in (RenderToDrain \cup {"fetch", "build", "finalize", "history_ai"})
               => Has("fetch")
        /\ outcome = "returned" => (Has("fetch") /\ Has("finalize_done"))
        /\ (outcome = "returned" /\ history_uid # "" /\ full_response # << >>) =>
               /\ Count("store_ai") = 1
               /\ trace[Index("store_ai")] = Event("store_ai", TRUE, full_response)

\* C9 witness: a turn with skip_history = True and a sink configured returned
\* after storing an "ai" entry.
C9_Witness ==
    /\ metadata = "{skip_history: True}"
    /\ history_uid # ""
    /\ outcome = "returned"
    /\ Has("store_ai")
    /\ Has("barrier_done")

----------------------------------------------------------------------------
\* a turn with a sink, without skip_history, answered 200 with a JSON object
\* whose "reply" is a non-empty text, has returned
RepliedAndReturned ==
    /\ history_uid # ""
    /\ metadata # "{skip_history: True}"
    /\ resp.kind = "http" /\ resp.status_code = 200
    /\ resp.body = "object_with_reply"
    /\ resp.val.t = "str" /\ resp.val.s # << >>
    /\ outcome = "returned"

\* the history holds one "human" entry, the input text, then one "ai" entry,
\* the returned response
OneHumanThenOneAi ==
    /\ Count("store_human") = 1
    /\ trace[Index("store_human")] = Event("store_human", TRUE, input_text)
    /\ Count("store_ai") = 1
    /\ trace[Index("store_ai")] = Event("store_ai", TRUE, full_response)
    /\ Index("store_human") < Index("store_ai")

\* C10 (as claimed): such a turn returns a response that contains the reply
\* text and leaves one "human" entry followed by one "ai" entry, whatever the
\* Output Renderer returned.
C10_ReplyReturnedAndStored ==
    RepliedAndReturned =>
        /\ Contains(full_response, resp.val.s)
        /\ OneHumanThenOneAi

\* the Output Renderer raised, or returned a text that contains the display text
RendererGaveDisplayText ==
    \/ Has("render_raise")
    \/ /\ Has("render_done")
       /\ Contains(trace[Index("render_done")].txt, clean_reply)

\* C10 (amended): such a turn, when the Output Renderer raised or returned a
\* partial response that contains the display text, returns a response that
\* contains the trimmed reply text and leaves one "human" entry followed by
\* one "ai" entry.
C10_TrimmedReplyReturnedAndStored ==
    (RepliedAndReturned /\ RendererGaveDisplayText) =>
        /\ Contains(full_response, Strip(resp.val.s))
        /\ full_response # << >>
        /\ OneHumanThenOneAi

\* C10 witness: a reply with whitespace around it was rendered and the turn
\* returned the trimmed reply.
C10_Witness ==
    /\ RepliedAndReturned
    /\ Has("render_done")
    /\ resp.val.s = <<" ", "a", "\n">>
    /\ full_response = <<"a">>

----------------------------------------------------------------------------
\* the sends to the UI that the turn makes or has its collaborator make first
UiSends == {"start_signal", "text", "backend-synth-complete", "error"}

\* C11 (as claimed): a send to the UI that fails on the transport, the start
\* signal included, is swallowed: it never puts the transport's error in
\* flight, and the turn is not on its way out because of it.
C11_TransportFailureNeverAborts ==
    (\E i \in DOMAIN trace : trace[i].ev \in UiSends /\ ~trace[i].ok) =>
        /\ err # "TransportError"
        /\ Has("start_signal") /\ ~trace[Index("start_signal")].ok
               => pc \notin {"error_send"} /\ outcome # "raised"

----------------------------------------------------------------------------
\* the turn failed to resolve its input
InputFailed == \E i \in DOMAIN trace : trace[i].ev = "input" /\ ~trace[i].ok

\* C12: when process_user_input raises, the turn is over: no input text is
\* set, the only calls made before the failure are the start signals and the
\* only ones made after it are the error event and cleanup_conversation (no
\* history write, no fetch, no render, no synthesis-complete event, no
\* finalize), the exception that reaches the caller is the one that
\* process_user_input raised unless the turn is cancelled while the error
\* event is sent, the turn never returns, and cleanup_conversation is the
\* last call of the turn.
C12_InputFailureIsFatal ==
    InputFailed =>
        /\ input_text = << >>
        /\ pc \in {"error_send", "done"}
        /\ \A i \in DOMAIN trace :
               trace[i].ev \in {"start_signal", "input", "error", "cancel", "cleanup"}
        /\ err \in {"ASRError", "CancelledError"}
        /\ ~CancelledAt({"error_send"}) => err = "ASRError"
        /\ outcome \in {"running", "raised", "cancelled"}
        /\ outcome = "raised" => err = "ASRError"
        /\ outcome = "cancelled" => CancelledAt({"error_send"})
        /\ pc = "done" => LastEvent = CleanupEvent

\* C12 witness: a turn whose speech recognition failed has raised the ASR
\* error to its caller after cleanup.
C12_Witness ==
    /\ InputFailed
    /\ pc = "done"
    /\ outcome = "raised"
    /\ err = "ASRError"
    /\ LastEvent = CleanupEvent

----------------------------------------------------------------------------
\* the exception a call of the trace ended with, "none" when it returned
FailureOf(e) ==
    CASE e.ev = "start_signal" /\ ~e.ok -> "TransportError"
      [] e.ev = "input" /\ ~e.ok        -> "ASRError"
      [] e.ev = "store_human" /\ ~e.ok  -> "HistoryError"
      [] e.ev = "build_raise"           -> "AttributeError"
      [] e.ev = "barrier_raise"         -> "TaskError"
      [] e.ev = "finalize_raise"        -> "FinalizeError"
      [] e.ev = "store_ai" /\ ~e.ok     -> "HistoryError"
      [] OTHER                          -> "none"

\* the places of the trace where an exception reached the handler of line 183
Failures == {i \in DOMAIN trace : FailureOf(trace[i]) # "none"}

\* C13: at most one failure reaches the handler of line 183 in a turn; once
\* one has, the turn only sends the error event and cleans up: unless it is
\* cancelled while the error event is sent, it ends raised, with exactly one
\* error event attempted right after the failure, then cleanup_conversation
\* as the last call, and the exception raised is the one of the failure,
\* also when the send of the error event failed.  No error event is attempted
\* without a failure, and a turn that raised had one.
C13_UnhandledFailureReraised ==
    /\ Cardinality(Failures) <= 1
    /\ Count("error") <= 1
    /\ Has("error") =>
           /\ Failures # {}
           /\ \A i \in Failures : Index("error") = i + 1
    /\ outcome = "raised" => Failures # {}
    /\ \A i \in Failures :
           /\ pc \in {"error_send", "done"}
           /\ ~CancelledAt({"error_send"}) => err = FailureOf(trace[i])
           /\ (pc = "done" /\ ~CancelledAt({"error_send"})) =>
                  /\ outcome = "raised"
                  /\ Len(trace) = i + 2
                  /\ trace[i + 1].ev = "error"
                  /\ trace[i + 2] = CleanupEvent

\* C13 witness: finalize raised, the send of the error event failed on the
\* transport, and the turn ended raising the error of finalize after cleanup.
C13_Witness ==
    /\ outcome = "raised"
    /\ err = "FinalizeError"
    /\ Has("finalize_raise")
    /\ Has("error") /\ ~trace[Index("error")].ok
    /\ LastEvent = CleanupEvent

----------------------------------------------------------------------------
\* the place of a UI event of the orchestrator in the order of a turn
UiRank(ev) ==
    CASE ev = "start_signal"           -> 1
      [] ev = "text"                   -> 2
      [] ev = "backend-synth-complete" -> 3
      [] ev = "finalize"               -> 4
      [] ev = "error"                  -> 5

UiEvents == {"start_signal", "text", "backend-synth-complete", "finalize", "error"}

\* C14: the UI events the orchestrator attempts in a turn are each attempted
\* at most once and in the order start signal, fallback text, synthesis
\* complete, finalize, error; the start signal is the first call of a turn
\* that attempts any of them; the fallback text is attempted only after
\* process_agent_output raised, the error event only after a failure reached
\* the handler, and after the error event the turn makes no call but
\* cleanup_conversation.
C14_UiEventOrder ==
    /\ \A ev \in UiEvents : Count(ev) <= 1
    /\ \A i, j \in DOMAIN trace :
           (i < j /\ trace[i].ev \in UiEvents /\ trace[j].ev \in UiEvents)
               => UiRank(trace[i].ev) < UiRank(trace[j].ev)
    /\ (\E i \in DOMAIN trace : trace[i].ev \in UiEvents) =>
           trace[1].ev = "start_signal"
    /\ Has("text") =>
           (Has("render_raise") /\ Index("render_raise") < Index("text"))
    /\ Has("error") =>
           /\ Failures # {}
           /\ \A j \in DOMAIN trace :
                  j > Index("error") => trace[j].ev \in {"cancel", "cleanup"}

\* C14 witness: a turn that attempted all five events: the renderer raised
\* with a task registered, the barrier was awaited, finalize raised.
C14_Witness ==
    /\ pc = "done"
    /\ \A ev \in UiEvents : Count(ev) = 1

----------------------------------------------------------------------------
\* the send of the event ev went out to the UI
Delivered(ev) == \E i \in DOMAIN trace : trace[i].ev = ev /\ trace[i].ok

EndedUncancelled == outcome \in {"returned", "raised"}

\* C15 (as claimed): in every turn that ended without cancellation the UI
\* has received the reply through process_agent_output, or the fallback text
\* event, or the error event, also when sends fail on the transport.  Stated
\* for the turns whose start signal went out, so that the failure of the start
\* signal (C11) plays no part.
C15_NeverSilence ==
    (EndedUncancelled /\ Delivered("start_signal")) =>
        Has("render_done") \/ Delivered("text") \/ Delivered("error")

\* C15 (amended): in every turn that ended without cancellation the
\* orchestrator has dispatched the output through process_agent_output, which
\* returned, or has attempted the fallback text event carrying the display
\* text, or has attempted the error event: a turn that returned did one of
\* the first two, a turn that raised did the third.  The attempt may have
\* failed on the transport.
C15_ReplyOrErrorAttempted ==
    /\ outcome = "returned" =>
           \/ Has("render_done")
           \/ Has("text") /\ trace[Index("text")].txt = clean_reply
                          /\ clean_reply # << >>
    /\ outcome = "raised" => Has("error")
    /\ Delivered("text") => trace[Index("text")].txt = clean_reply

\* C15 witness: the renderer raised, the fallback send failed on the
\* transport, and the turn returned: nothing of the reply went out to the UI.
C15_Witness ==
    /\ outcome = "returned"
    /\ Has("render_raise")
    /\ Has("text")
    /\ ~Delivered("text")
    /\ ~Has("error")

----------------------------------------------------------------------------
\* the calls a turn makes only when it goes on past the barrier
PastBarrier ==
    {"barrier_done", "backend-synth-complete", "finalize", "finalize_done",
     "error", "store_ai"}

\* C16: once the turn is cancelled while the gather waits for a pending task,
\* no task stays pending (the gather cancels them), the turn makes no call
\* but the re-raise of the cancellation and cleanup_conversation: no
\* synthesis-complete event, no finalize, no error event, no "ai" entry; when
\* the cancelled tasks have ended it ends with CancelledError, cleanup being
\* its last call.  After a turn has ended cancelled, at the barrier or at any
\* other await, nothing more is called and its outcome stays, also while the
\* work it left running (the thread of the fetch, tasks that were pending)
\* ends.
C16_BarrierCancelEndsTurn ==
    /\ [](Has("gather_cancel") =>
              /\ pc \in {"barrier_cancelling", "done"}
              /\ NoPendingTask
              /\ \A i \in DOMAIN trace : trace[i].ev \notin PastBarrier
              /\ \A i \in DOMAIN trace :
                     i > Index("gather_cancel") => trace[i].ev \in {"cancel", "cleanup"}
              /\ pc = "done" =>
                     /\ outcome = "cancelled"
                     /\ err = "CancelledError"
                     /\ CancelledAt({"barrier"})
                     /\ LastEvent = CleanupEvent
                     /\ Count("cleanup") = 1)
    /\ [][outcome = "cancelled" =>
              /\ trace' = trace
              /\ outcome' = outcome
              /\ err' = err
              /\ pc' = "done"]_vars

\* C16 witness: a turn cancelled at the barrier while a task was pending has
\* ended cancelled after cleanup.
C16_Witness ==
    /\ Has("gather_cancel")
    /\ pc = "done"
    /\ outcome = "cancelled"
    /\ LastEvent = CleanupEvent

----------------------------------------------------------------------------
\* C17 (as claimed): once the gather of line 153 has returned, the task group
\* is empty: it was drained once by the barrier, and what finalize is handed
\* holds no handle, pending or not.
C17_GroupEmptyAfterBarrier ==
    Has("barrier_done") =>
        /\ Count("barrier_done") = 1
        /\ NoPendingTask
        /\ task_list = << >>

----------------------------------------------------------------------------
\* C18: no failure of a task is raised into the turn; the gather returns only
\* when every task of the group has ended, whichever of them failed; once it
\* has returned, the synthesis-complete event is attempted and then finalize
\* is called, unless the turn is cancelled during that send.  With an empty
\* group nothing is awaited: finalize is called right after the render step,
\* and no synthesis-complete event is attempted.
C18_TaskFailureDoesNotAbort ==
    /\ err # "TaskError"
    /\ ~Has("barrier_raise")
    /\ Has("barrier_done") =>
           /\ \A i \in DOMAIN task_list : task_list[i] \in Settled
           /\ (pc # "synth_send" /\ ~CancelledAt({"synth_send"})) =>
                  /\ Count("backend-synth-complete") = 1
                  /\ Count("finalize") = 1
                  /\ Index("barrier_done") < Index("backend-synth-complete")
                  /\ Index("finalize") = Index("backend-synth-complete") + 1
    /\ (pc \in {"finalize", "history_ai"} /\ task_list # << >>) =>
           Has("barrier_done")
    /\ (Has("finalize") /\ ~Has("barrier_done")) =>
           /\ trace[Index("finalize") - 1].ev \in {"render_done", "text"}
           /\ ~Has("backend-synth-complete")
           /\ task_list = << >>

\* C18 witness: of two registered tasks the first failed and the second
\* completed; the barrier returned, the synthesis-complete event was
\* attempted, and finalize was called and returned.
C18_Witness ==
    /\ pc = "history_ai"
    /\ task_list = <<"failed", "done">>
    /\ Has("barrier_done")
    /\ Has("backend-synth-complete")
    /\ Has("finalize_done")

----------------------------------------------------------------------------
\* C20: store_message is called for an "ai" entry at most once in a turn, only
\* with a sink configured and a non-empty response, which is the accumulated
\* one, and only after finalize returned; the "human" entry is stored at most
\* once and before the request to the webhook is issued; a turn that raised
\* or was cancelled has stored no "ai" entry, so that its "human" entry, if it
\* stored one, stands alone.
C20_AiEntryOnlyAfterFinalize ==
    /\ Count("store_ai") <= 1
    /\ Count("store_human") <= 1
    /\ Has("store_ai") =>
           /\ history_uid # ""
           /\ trace[Index("store_ai")].txt # << >>
           /\ trace[Index("store_ai")].txt = full_response
           /\ Has("finalize_done")
           /\ Index("store_ai") = Index("finalize_done") + 1
           /\ ~Has("finalize_raise")
    /\ Has("store_human") =>
           /\ history_uid # ""
           /\ Has("fetch") => Index("store_human") < Index("fetch")
    /\ (Has("fetch") /\ history_uid # "" /\ ~skip_history) => Delivered("store_human")
    /\ outcome \in {"raised", "cancelled"} => ~Delivered("store_ai")
    /\ Delivered("store_ai") => outcome = "returned"

\* C20 witness: a turn with a sink and skip_history set returned after
\* finalize and stored its response as the only history entry.
C20_Witness ==
    /\ outcome = "returned"
    /\ skip_history
    /\ ~Has("store_human")
    /\ Delivered("store_ai")
    /\ Has("finalize_done")

----------------------------------------------------------------------------
\* C19: when the fetch ends (with an answer or a failure such as the
\* timeout), awaited collaborators return or raise and tasks end, every turn
\* comes to its end and stays there: it has returned, raised or been
\* cancelled, and cleanup_conversation has been called; the request to the
\* webhook is issued at most once in a turn.
C19_TurnTerminates ==
    /\ <>[](pc = "done")
    /\ [](pc = "done" =>
              /\ outcome \in {"returned", "raised", "cancelled"}
              /\ Count("cleanup") = 1
              /\ LastEvent = CleanupEvent)
    /\ [](pc # "done" => outcome = "running")
    /\ [](Count("fetch") <= 1)

\* C19 witness: the fetch timed out, a task of the renderer failed, and the
\* turn returned after the barrier with one request issued and cleanup done.
C19_Witness ==
    /\ pc = "done"
    /\ outcome = "returned"
    /\ resp = Exc(<<"timed out">>)
    /\ Count("fetch") = 1
    /\ Has("barrier_done")
    /\ LastEvent = CleanupEvent
====
